---- MODULE Spec2Model ----
(***************************************************************************)
(* Model of the Google provider of unifont (src/providers/google.ts):      *)
(* splitCssIntoSubsets, the axis resolution of getFontDetails with         *)
(* googleFlavoredSorting, and resolveFont with its storage and fetches.    *)
(*                                                                         *)
(* Strings are sequences of one-character strings, so that trim, join,     *)
(* replace, charAt, the default sort and localeCompare are computed.       *)
(* A value that may be null is a sequence of length at most one.           *)
(***************************************************************************)
EXTENDS Integers, Sequences, FiniteSets, TLC

VARIABLES
  input,                 \* splitCssIntoSubsets: the CSS text handed in
  data,                  \* splitCssIntoSubsets: the returned fragments
  phase,                 \* which step of a pure computation has run
  variableAxis,          \* _options.experimental.variableAxis[family]
  styles,                \* getFontDetails: the sorted style codes
  weights,               \* getFontDetails: the prepared weights
  resolvedAxes,          \* getFontDetails: the axis names pushed so far
  resolvedVariants,      \* getFontDetails: the variant tuples
  pc,                    \* resolveFont: where the call is suspended
  fontFamily,            \* resolveFont: the family asked for
  options,               \* resolveFont: the options asked for
  priority,              \* getFontDetails: the counter of the flavor loop
  rawCss,                \* getFontDetails: the CSS text last fetched
  resolvedFontFaceData,  \* getFontDetails: the records collected
  requests,              \* the fetches the call has issued
  storage,               \* ctx.storage: key -> stored fonts
  storageLog,            \* the keys the call has asked ctx.storage for
  returned,              \* what the call returned
  calls                  \* resolveFont calls made

\* ------------------------------------------------------------ characters

UpperSeq == <<"A","B","C","D","E","F","G","H","I","J","K","L","M",
              "N","O","P","Q","R","S","T","U","V","W","X","Y","Z">>
LowerSeq == <<"a","b","c","d","e","f","g","h","i","j","k","l","m",
              "n","o","p","q","r","s","t","u","v","w","x","y","z">>
DigitSeq == <<"0","1","2","3","4","5","6","7","8","9">>

Range(s) == { s[i] : i \in 1..Len(s) }

Chars == Range(UpperSeq) \cup Range(LowerSeq) \cup Range(DigitSeq)
           \cup {" ", "\n", ",", "."}

\* UTF-16 code unit of a character
CodeOf ==
  [c \in Chars |->
     IF c \in Range(UpperSeq) THEN 64 + (CHOOSE i \in 1..26 : UpperSeq[i] = c)
     ELSE IF c \in Range(LowerSeq) THEN 96 + (CHOOSE i \in 1..26 : LowerSeq[i] = c)
     ELSE IF c \in Range(DigitSeq) THEN 47 + (CHOOSE i \in 1..10 : DigitSeq[i] = c)
     ELSE IF c = " " THEN 32
     ELSE IF c = "\n" THEN 10
     ELSE IF c = "," THEN 44
     ELSE 46]

Code(c) == CodeOf[c]

IsWhitespace(c) == c \in {" ", "\n"}

Last(s) == s[Len(s)]

Null == <<>>
Some(v) == <<v>>

\* String.prototype.trim
RECURSIVE TrimStart(_)
TrimStart(s) ==
  IF s # <<>> /\ IsWhitespace(Head(s)) THEN TrimStart(Tail(s)) ELSE s

RECURSIVE TrimEnd(_)
TrimEnd(s) ==
  IF s # <<>> /\ IsWhitespace(Last(s)) THEN TrimEnd(SubSeq(s, 1, Len(s) - 1)) ELSE s

trim(s) == TrimEnd(TrimStart(s))

\* ------------------------------------------------- CSS text and its parse

\* The CSS text is a sequence of items: a line break, a comment with its raw
\* text, or an @font-face rule (written on one line) with its src url.
NewLine == [t |-> "nl", raw |-> <<>>, url |-> "", format |-> ""]
Comment(raw) == [t |-> "comment", raw |-> raw, url |-> "", format |-> ""]
FontFace(url, format) == [t |-> "face", raw |-> <<>>, url |-> url, format |-> format]

RECURSIVE CountNewlines(_)
CountNewlines(s) ==
  IF s = <<>> THEN 0
  ELSE (IF Head(s) = "\n" THEN 1 ELSE 0) + CountNewlines(Tail(s))

\* line breaks an item holds
LineBreaks(item) ==
  IF item.t = "nl" THEN 1
  ELSE IF item.t = "comment" THEN CountNewlines(item.raw)
  ELSE 0

\* loc.start.line of the item at position i (lines count from 1)
RECURSIVE StartLine(_, _)
StartLine(css, i) ==
  IF i = 1 THEN 1 ELSE StartLine(css, i - 1) + LineBreaks(css[i - 1])

\* loc.end.line of the item at position i
EndLine(css, i) == StartLine(css, i) + LineBreaks(css[i])

\* onComment: every comment of the text, in document order
RECURSIVE CommentsUpTo(_, _)
CommentsUpTo(css, n) ==
  IF n = 0 THEN <<>>
  ELSE IF css[n].t = "comment"
       THEN Append(CommentsUpTo(css, n - 1),
                   [value |-> trim(css[n].raw), endLine |-> EndLine(css, n)])
       ELSE CommentsUpTo(css, n - 1)

onComment(css) == CommentsUpTo(css, Len(css))

\* findAll: the font-face at-rules of the tree, in document order
RECURSIVE NodesUpTo(_, _)
NodesUpTo(css, n) ==
  IF n = 0 THEN <<>>
  ELSE IF css[n].t = "face"
       THEN Append(NodesUpTo(css, n - 1),
                   [rule |-> css[n], startLine |-> StartLine(css, n)])
       ELSE NodesUpTo(css, n - 1)

findAll(css) == NodesUpTo(css, Len(css))

\* generate(node): the rule's text regenerated from the tree
generate(node) == <<node.rule>>

\* comments.filter(c => c.endLine < node.loc.start.line).at(-1), or Null
firstMatchingComment(comments, node) ==
  LET m == SelectSeq(comments, LAMBDA c : c.endLine < node.startLine)
  IN  IF m = <<>> THEN Null ELSE Some(Head(m))

sameLineComment(comments, node) ==
  LET m == SelectSeq(comments, LAMBDA c : c.endLine <= node.startLine)
  IN  IF m = <<>> THEN Null ELSE Some(Last(m))

precedingComment(comments, node) ==
  LET m == SelectSeq(comments, LAMBDA c : c.endLine < node.startLine)
  IN  IF m = <<>> THEN Null ELSE Some(Last(m))

RECURSIVE SplitLoop(_, _, _)
SplitLoop(comments, nodes, acc) ==
  IF nodes = <<>> THEN acc
  ELSE LET comment == precedingComment(comments, Head(nodes))
       IN  SplitLoop(comments, Tail(nodes),
                     IF comment = Null THEN acc
                     ELSE Append(acc, [subset |-> Some(comment[1].value),
                                       css |-> generate(Head(nodes))]))

splitCssIntoSubsets(css) ==
  LET comments == onComment(css)
      nodes == findAll(css)
  IN  IF Len(comments) = 0
      THEN <<[subset |-> Null, css |-> css]>>
      ELSE SplitLoop(comments, nodes, <<>>)

\* ------------------------------------------------------ string helpers

\* v.weight.replace(' ', '..'): the first blank only
RECURSIVE replaceBlank(_)
replaceBlank(s) ==
  IF s = <<>> THEN <<>>
  ELSE IF Head(s) = " " THEN <<".", ".">> \o Tail(s)
  ELSE <<Head(s)>> \o replaceBlank(Tail(s))

\* [v, o].join(',')
join(v, o) == v \o <<",">> \o o

\* a < b for the default sort: by UTF-16 code units, a prefix first
RECURSIVE StrLess(_, _)
StrLess(a, b) ==
  IF b = <<>> THEN FALSE
  ELSE IF a = <<>> THEN TRUE
  ELSE IF Head(a) # Head(b) THEN Code(Head(a)) < Code(Head(b))
  ELSE StrLess(Tail(a), Tail(b))

Front(s) == SubSeq(s, 1, Len(s) - 1)

\* Array.prototype.sort() without comparator (stable)
RECURSIVE InsertString(_, _)
InsertString(acc, x) ==
  IF acc # <<>> /\ StrLess(x, Last(acc))
  THEN Append(InsertString(Front(acc), x), Last(acc))
  ELSE Append(acc, x)

RECURSIVE sort(_)
sort(s) == IF s = <<>> THEN <<>> ELSE InsertString(sort(Front(s)), Last(s))

\* [...new Set(s)]: first occurrences, in order
RECURSIVE dedupe(_)
dedupe(s) ==
  IF s = <<>> THEN <<>>
  ELSE LET d == dedupe(Front(s))
       IN  IF Last(s) \in Range(d) THEN d ELSE Append(d, Last(s))

\* ------------------------------------------------ googleFlavoredSorting

IsUpper(c) == Code(c) \in 65..90

toLowerCaseChar(c) ==
  IF IsUpper(c) THEN LowerSeq[Code(c) - 64] ELSE c

\* a.charAt(0) === a.charAt(0).toLowerCase()
startsLowercase(a) == a = <<>> \/ a[1] = toLowerCaseChar(a[1])

\* String.prototype.localeCompare of the root collation on letters and
\* digits: the letters without their case decide first (digits before
\* letters, a prefix first), then the first difference of case, lowercase first.
PrimaryWeight(c) ==
  IF c \in Range(DigitSeq) THEN Code(c)
  ELSE IF c \in Range(UpperSeq) \cup Range(LowerSeq) THEN 100 + Code(toLowerCaseChar(c))
  ELSE Code(c) - 50

RECURSIVE ComparePrimary(_, _)
ComparePrimary(a, b) ==
  IF a = <<>> /\ b = <<>> THEN 0
  ELSE IF a = <<>> THEN -1
  ELSE IF b = <<>> THEN 1
  ELSE IF PrimaryWeight(Head(a)) < PrimaryWeight(Head(b)) THEN -1
  ELSE IF PrimaryWeight(Head(a)) > PrimaryWeight(Head(b)) THEN 1
  ELSE ComparePrimary(Tail(a), Tail(b))

RECURSIVE CompareCase(_, _)
CompareCase(a, b) ==
  IF a = <<>> \/ b = <<>> THEN 0
  ELSE IF Head(a) = Head(b) THEN CompareCase(Tail(a), Tail(b))
  ELSE IF IsUpper(Head(b)) THEN -1 ELSE 1

localeCompare(a, b) ==
  LET p == ComparePrimary(a, b)
  IN  IF p # 0 THEN p ELSE CompareCase(a, b)

Number(b) == IF b THEN 1 ELSE 0

plainLocaleSorting(a, b) == localeCompare(a, b)

googleFlavoredSorting(a, b) ==
  LET isALowercase == startsLowercase(a)
      isBLowercase == startsLowercase(b)
  IN  IF isALowercase # isBLowercase
      THEN Number(isBLowercase) - Number(isALowercase)
      ELSE localeCompare(a, b)

\* Array.prototype.sort(googleFlavoredSorting) (stable)
RECURSIVE InsertAxis(_, _)
InsertAxis(acc, x) ==
  IF acc # <<>> /\ googleFlavoredSorting(Last(acc), x) > 0
  THEN Append(InsertAxis(Front(acc), x), Last(acc))
  ELSE Append(acc, x)

RECURSIVE sortAxes(_)
sortAxes(s) == IF s = <<>> THEN <<>> ELSE InsertAxis(sortAxes(Front(s)), Last(s))

\* ------------------------------------------- getFontDetails: the variants

wght == <<"w","g","h","t">>
ital == <<"i","t","a","l">>

styleMap(style) == IF style = "normal" THEN <<"0">> ELSE <<"1">>

Map(s, Op(_)) == [i \in 1..Len(s) |-> Op(s[i])]

\* [...new Set(options.styles.map(i => styleMap[i]))].sort()
resolveStyles(optionStyles) == sort(dedupe(Map(optionStyles, styleMap)))

\* prepareWeights(...).map(v => v.variable ? {weight: v.weight.replace(' ', '..'), ...} : v)
resolveWeights(prepared) ==
  Map(prepared, LAMBDA v : IF v.variable
                           THEN [weight |-> replaceBlank(v.weight), variable |-> v.variable]
                           ELSE v)

\* Object.keys(_options.experimental.variableAxis[family] ?? {})
objectKeys(familyAxes) == Map(familyAxes, LAMBDA e : e.name)

axisOrder(familyAxes) == sortAxes(<<wght, ital>> \o objectKeys(familyAxes))

\* Array.isArray(v) ? `${v[0]}..${v[1]}` : v
renderAxisEntry(v) ==
  IF v.isArray THEN v.v[1] \o <<".", ".">> \o v.v[2] ELSE v.v[1]

axisValueOf(axis, weightList, styleCodes, familyAxes) ==
  IF axis = wght THEN Map(weightList, LAMBDA v : v.weight)
  ELSE IF axis = ital THEN styleCodes
  ELSE LET e == CHOOSE e \in Range(familyAxes) : e.name = axis
       IN  Map(e.values, renderAxisEntry)

\* resolvedVariants.flatMap(v => [...axisValue].map(o => [v, o].join(',')))
RECURSIVE flatMapJoin(_, _)
flatMapJoin(variants, axisValue) ==
  IF variants = <<>> THEN <<>>
  ELSE Map(axisValue, LAMBDA o : join(Head(variants), o))
         \o flatMapJoin(Tail(variants), axisValue)

foldStepUnsorted(variants, axisValue) ==
  IF Len(variants) = 0 THEN axisValue ELSE flatMapJoin(variants, axisValue)

\* one turn of the loop over the axes
foldStep(variants, axisValue) ==
  IF Len(variants) = 0 THEN axisValue ELSE sort(flatMapJoin(variants, axisValue))

RECURSIVE foldAxes(_, _, _, _, _, _)
foldAxes(axes, weightList, styleCodes, familyAxes, resolvedAxesAcc, variantsAcc) ==
  IF axes = <<>>
  THEN [resolvedAxes |-> resolvedAxesAcc, resolvedVariants |-> variantsAcc]
  ELSE LET axis == Head(axes)
           axisValue == axisValueOf(axis, weightList, styleCodes, familyAxes)
       IN  foldAxes(Tail(axes), weightList, styleCodes, familyAxes,
                    Append(resolvedAxesAcc, axis),
                    foldStep(variantsAcc, axisValue))

\* weights.length === 0 || styles.length === 0
onlyWeightsChecked(weightList, styleCodes) == Len(weightList) = 0

nothingToResolve(weightList, styleCodes) ==
  Len(weightList) = 0 \/ Len(styleCodes) = 0

resolveVariants(weightList, styleCodes, familyAxes) ==
  foldAxes(axisOrder(familyAxes), weightList, styleCodes, familyAxes, <<>>, <<>>)

\* ------------------------------------------------ the provider's calls

\* for (const extension in userAgents)
userAgents == <<"woff2", "ttf">>

\* the family index (google:meta.json): family, fonts (its weights), axes
googleFonts ==
  << [family |-> "Roboto Flex", fonts |-> <<<<"4","0","0">>, <<"7","0","0">>>>,
      axes |-> <<<<"w","g","h","t">>>>],
     [family |-> "Poppins", fonts |-> <<<<"4","0","0">>>>, axes |-> <<>>] >>

\* googleFonts.some(font => font.family === fontFamily)
noFamilyCheck(family) == TRUE

someFamily(family) == \E i \in 1..Len(googleFonts) : googleFonts[i].family = family

\* googleFonts.find(font => font.family === family): Null when there is none
findFont(family) ==
  LET m == SelectSeq(googleFonts, LAMBDA font : font.family = family)
  IN  IF m = <<>> THEN Null ELSE Some(Head(m))

\* prepareWeights (utils): the requested weights the family has; a range
\* ("100 900") is kept, as variable, when the family has a wght axis
prepareWeights(inputWeights, hasVariableWeights, available) ==
  Map(SelectSeq(inputWeights,
                LAMBDA w : IF " " \in Range(w) THEN hasVariableWeights
                           ELSE w \in Range(available)),
      LAMBDA w : [weight |-> w, variable |-> " " \in Range(w)])

\* _options.experimental.variableAxis[family] ?? {}
variableAxisOf(family) == IF family = "Roboto Flex" THEN variableAxis ELSE <<>>

\* hash(options) (ohash): equal exactly for equal options
hash(o) == o

\* `google:${fontFamily}-${hash(options)}-data.json`
storageKey(family, o) == <<family, hash(o)>>

\* ctx.storage.getItem(key, init): the stored value, if any
hasItem(key) == \E i \in 1..Len(storage) : storage[i].key = key
getItem(key) == (CHOOSE e \in Range(storage) : e.key = key).value
setItem(key, value) == Append(storage, [key |-> key, value |-> value])

\* extractFontFaceData (css/parse): one record for each font-face rule
extractFontFaceData(css) ==
  LET faces == SelectSeq(css, LAMBDA item : item.t = "face")
  IN  Map(faces, LAMBDA f : [src |-> f.url, format |-> f.format, meta |-> Null])

\* group.subset ? options.subsets.includes(group.subset) : true
keepGroup(group, subsets) ==
  IF group.subset # Null /\ group.subset[1] # <<>>
  THEN group.subset[1] \in Range(subsets)
  ELSE TRUE

\* f.meta ??= {}; f.meta.priority = priority
stampZero(f, p) == [f EXCEPT !.meta = Some([priority |-> 0])]

stamp(f, p) == [f EXCEPT !.meta = Some([priority |-> p])]

RECURSIVE collect(_, _, _)
collect(groups, p, acc) ==
  IF groups = <<>> THEN acc
  ELSE collect(Tail(groups), p,
               acc \o Map(extractFontFaceData(Head(groups).css),
                          LAMBDA f : stamp(f, p)))

\* the body of the flavor loop after the fetch has answered
facesOf(css, subsets, p) ==
  LET groups == SelectSeq(splitCssIntoSubsets(css),
                          LAMBDA group : keepGroup(group, subsets))
  IN  collect(groups, p, <<>>)

\* the query of the /css2 request
request(extension, family, axes, variants) ==
  [extension |-> extension, family |-> family, axes |-> axes, variants |-> variants]

undefined == [kind |-> "undefined", fonts |-> <<>>]
emptyFonts == [kind |-> "fonts", fonts |-> <<>>]
fontsResult(fonts) == [kind |-> "fonts", fonts |-> fonts]
failure == [kind |-> "error", fonts |-> <<>>]

\* ------------------------------------------------------ bounded inputs

SeqsUpTo(S, n) == UNION { [1..k -> S] : k \in 0..n }

MaxExtraAxes == 2
MaxAxisValues == 2

opsz == <<"o","p","s","z">>
wdth == <<"w","d","t","h">>
Wdth == <<"W","d","t","h">>
WGHT == <<"W","G","H","T">>
GRAD == <<"G","R","A","D">>
zzz == <<"z","z","z">>
AAA == <<"A","A","A">>

Literal(s) == [isArray |-> FALSE, v |-> <<s>>]
Pair(lo, hi) == [isArray |-> TRUE, v |-> <<lo, hi>>]

AxisEntries == { Literal(<<"8">>), Pair(<<"2","5">>, <<"1","5","1">>) }

Injective(s) == \A i, j \in 1..Len(s) : s[i] = s[j] => i = j

KeyLists(names) == { k \in SeqsUpTo(names, MaxExtraAxes) : Injective(k) }

\* the override maps with their keys in insertion order
AxisMaps(names) ==
  UNION { { [i \in 1..Len(k) |-> [name |-> k[i], values |-> vs[i]]] :
              vs \in [1..Len(k) -> SeqsUpTo(AxisEntries, MaxAxisValues)] } :
          k \in KeyLists(names) }

ValueAxisNames == { opsz, GRAD }

OrderAxisNames == { wdth, Wdth, WGHT, zzz, AAA, opsz, wght }

NamedAxisMaps ==
  { [i \in 1..Len(k) |-> [name |-> k[i], values |-> <<Literal(<<"8">>)>>]] :
      k \in KeyLists(OrderAxisNames) }

Fixed(w) == [weight |-> w, variable |-> FALSE]
Variable(w) == [weight |-> w, variable |-> TRUE]

w400 == <<"4","0","0">>
w700 == <<"7","0","0">>
w100to900 == <<"1","0","0"," ","9","0","0">>

\* results of prepareWeights
PreparedLists == { <<>>, <<Fixed(w400)>>, <<Fixed(w400), Fixed(w700)>>,
                   <<Fixed(w700), Fixed(w400)>>, <<Variable(w100to900)>> }

StyleLists == { <<>>, <<"normal">>, <<"italic">>, <<"normal", "italic">>,
                <<"italic", "normal">>, <<"oblique", "italic">> }

MaxCalls == 2

latin == <<"l","a","t","i","n">>
cyr == <<"c","y","r">>

Families == { "Roboto Flex", "Poppins", "Unknown Sans" }

OptionPool ==
  { [styles |-> <<"normal", "italic">>, weights |-> <<w400, w700>>, subsets |-> <<latin>>],
    [styles |-> <<>>, weights |-> <<w400>>, subsets |-> <<latin>>],
    [styles |-> <<"italic">>, weights |-> <<<<"9","9","9">>>>, subsets |-> <<latin, cyr>>],
    [styles |-> <<"oblique">>, weights |-> <<w100to900>>, subsets |-> <<>>] }

\* what the upstream may answer, for the flavor asked
UpstreamCss(format) ==
  { <<>>,
    <<FontFace("a", format)>>,
    <<Comment(<<" ","l","a","t","i","n"," ">>), NewLine, FontFace("a", format), NewLine,
      Comment(<<" ","c","y","r"," ">>), NewLine, FontFace("b", format)>>,
    <<Comment(<<>>), NewLine, FontFace("a", format)>>,
    <<FontFace("a", format), NewLine, Comment(<<"c","y","r">>), NewLine,
      FontFace("b", format)>> }

ProviderAxisMaps == { <<>>, <<[name |-> opsz, values |-> <<Literal(<<"8">>)>>]>> }

NoOptions == [styles |-> <<>>, weights |-> <<>>, subsets |-> <<>>]
NotReturned == [kind |-> "none", fonts |-> <<>>]


MaxItems == 4

RawTexts == { <<" ","l","a","t","i","n"," ">>,
              <<"c","y","r">>,
              <<>>,
              <<"l","a","t","i","n","\n">> }

Items == {NewLine} \cup { Comment(r) : r \in RawTexts }
           \cup { FontFace(u, "woff2") : u \in {"a", "b"} }

FacePositions(css) == { i \in 1..Len(css) : css[i].t = "face" }
CommentPositions(css) == { i \in 1..Len(css) : css[i].t = "comment" }

\* upstream rules differ in their src
DistinctFaces(css) ==
  \A i, j \in FacePositions(css) : css[i] = css[j] => i = j

Documents == { d \in SeqsUpTo(Items, MaxItems) : DistinctFaces(d) }

\* ------------------------------------------------------ specifications

splitVars == <<input, data>>
axisVars == <<styles, weights, resolvedAxes, resolvedVariants>>
callVars == <<pc, fontFamily, options, priority, rawCss, resolvedFontFaceData,
              requests, storage, storageLog, returned, calls>>

vars == <<input, data, phase, variableAxis, styles, weights, resolvedAxes,
          resolvedVariants, pc, fontFamily, options, priority, rawCss,
          resolvedFontFaceData, requests, storage, storageLog, returned, calls>>

NoSplit == input = <<>> /\ data = <<>>

NoAxes ==
  /\ styles = <<>>
  /\ weights = <<>>
  /\ resolvedAxes = <<>>
  /\ resolvedVariants = <<>>

NoCall ==
  /\ pc = "idle"
  /\ fontFamily = ""
  /\ options = NoOptions
  /\ priority = 0
  /\ rawCss = <<>>
  /\ resolvedFontFaceData = <<>>
  /\ requests = <<>>
  /\ storage = <<>>
  /\ storageLog = <<>>
  /\ returned = NotReturned
  /\ calls = 0

\* --- splitCssIntoSubsets applied to every bounded CSS text

InitSplit ==
  /\ input \in Documents
  /\ data = <<>>
  /\ phase = "input"
  /\ variableAxis = <<>>
  /\ NoAxes
  /\ NoCall

Partition ==
  /\ phase = "input"
  /\ data' = splitCssIntoSubsets(input)
  /\ phase' = "split"
  /\ UNCHANGED <<input, variableAxis, axisVars, callVars>>

NextSplit == Partition

SpecSplit == InitSplit /\ [][NextSplit]_vars

\* --- the variants of getFontDetails for every bounded prepared weight
\* --- list, style list and axis-override map

\* weights.length === 0 || styles.length === 0: return []
ResolveNothing ==
  /\ phase = "input"
  /\ \E prepared \in PreparedLists, optionStyles \in StyleLists :
       /\ styles' = resolveStyles(optionStyles)
       /\ weights' = resolveWeights(prepared)
       /\ nothingToResolve(weights', styles')
  /\ phase' = "empty"
  /\ UNCHANGED <<resolvedAxes, resolvedVariants, variableAxis, splitVars, callVars>>

ResolveAxes ==
  /\ phase = "input"
  /\ \E prepared \in PreparedLists, optionStyles \in StyleLists :
       /\ styles' = resolveStyles(optionStyles)
       /\ weights' = resolveWeights(prepared)
       /\ ~ nothingToResolve(weights', styles')
       /\ LET r == resolveVariants(weights', styles', variableAxis)
          IN  /\ resolvedAxes' = r.resolvedAxes
              /\ resolvedVariants' = r.resolvedVariants
  /\ phase' = "resolved"
  /\ UNCHANGED <<variableAxis, splitVars, callVars>>

NextAxes == ResolveNothing \/ ResolveAxes

InitAxes ==
  /\ variableAxis \in AxisMaps(ValueAxisNames)
  /\ phase = "input"
  /\ NoSplit
  /\ NoAxes
  /\ NoCall

SpecAxes == InitAxes /\ [][NextAxes]_vars

\* --- the same, for axis-override maps over many names

InitOrder ==
  /\ variableAxis \in NamedAxisMaps
  /\ phase = "input"
  /\ NoSplit
  /\ NoAxes
  /\ NoCall

SpecOrder == InitOrder /\ [][NextAxes]_vars

\* --- resolveFont, suspended at each fetch and at the storage

localsReset ==
  /\ styles' = <<>>
  /\ weights' = <<>>
  /\ resolvedAxes' = <<>>
  /\ resolvedVariants' = <<>>
  /\ priority' = 0
  /\ rawCss' = <<>>
  /\ resolvedFontFaceData' = <<>>
  /\ requests' = <<>>

\* if (!googleFonts.some(...)) return
ResolveUnknown ==
  /\ pc = "idle"
  /\ calls < MaxCalls
  /\ \E family \in Families, o \in OptionPool :
       /\ ~ someFamily(family)
       /\ fontFamily' = family
       /\ options' = o
  /\ localsReset
  /\ storageLog' = <<>>
  /\ returned' = undefined
  /\ calls' = calls + 1
  /\ UNCHANGED <<pc, storage, variableAxis, phase, splitVars>>

\* ctx.storage.getItem finds the key: getFontDetails is not run
ResolveStored ==
  /\ pc = "idle"
  /\ calls < MaxCalls
  /\ \E family \in Families, o \in OptionPool :
       /\ someFamily(family)
       /\ hasItem(storageKey(family, o))
       /\ fontFamily' = family
       /\ options' = o
       /\ storageLog' = <<storageKey(family, o)>>
       /\ returned' = fontsResult(getItem(storageKey(family, o)))
  /\ localsReset
  /\ calls' = calls + 1
  /\ UNCHANGED <<pc, storage, variableAxis, phase, splitVars>>

\* getFontDetails up to its first fetch
GetFontDetails ==
  /\ pc = "idle"
  /\ calls < MaxCalls
  /\ \E family \in Families, o \in OptionPool :
       /\ someFamily(family)
       /\ ~ hasItem(storageKey(family, o))
       /\ fontFamily' = family
       /\ options' = o
       /\ storageLog' = <<storageKey(family, o)>>
       /\ LET font == findFont(family)
          IN  IF font = Null
              THEN \* font.axes of undefined throws
                   /\ styles' = resolveStyles(o.styles)
                   /\ weights' = <<>>
                   /\ resolvedAxes' = <<>>
                   /\ resolvedVariants' = <<>>
                   /\ returned' = failure
                   /\ pc' = "idle"
              ELSE /\ styles' = resolveStyles(o.styles)
                   /\ weights' = resolveWeights(
                        prepareWeights(o.weights, wght \in Range(font[1].axes),
                                       font[1].fonts))
                   /\ returned' = NotReturned
                   /\ IF nothingToResolve(weights', styles')
                      THEN /\ resolvedAxes' = <<>>
                           /\ resolvedVariants' = <<>>
                           /\ pc' = "store"
                      ELSE LET r == resolveVariants(weights', styles',
                                                    variableAxisOf(family))
                           IN  /\ resolvedAxes' = r.resolvedAxes
                               /\ resolvedVariants' = r.resolvedVariants
                               /\ pc' = "fetch"
  /\ priority' = 0
  /\ rawCss' = <<>>
  /\ resolvedFontFaceData' = <<>>
  /\ requests' = <<>>
  /\ calls' = calls + 1
  /\ UNCHANGED <<storage, variableAxis, phase, splitVars>>

\* one turn of the flavor loop: the fetch answers
FetchCss ==
  /\ pc = "fetch"
  /\ LET extension == userAgents[priority + 1]
     IN  /\ requests' = Append(requests,
                               request(extension, fontFamily, resolvedAxes, resolvedVariants))
         /\ \E css \in UpstreamCss(extension) :
              /\ rawCss' = css
              /\ resolvedFontFaceData' =
                   resolvedFontFaceData \o facesOf(css, options.subsets, priority)
  /\ priority' = priority + 1
  /\ pc' = IF priority' < Len(userAgents) THEN "fetch" ELSE "store"
  /\ UNCHANGED <<fontFamily, options, storage, storageLog, returned, calls,
                 variableAxis, phase, splitVars, axisVars>>

\* the fetch throws: resolveFont rejects
FetchFails ==
  /\ pc = "fetch"
  /\ requests' = Append(requests,
                        request(userAgents[priority + 1], fontFamily,
                                resolvedAxes, resolvedVariants))
  /\ returned' = failure
  /\ pc' = "idle"
  /\ UNCHANGED <<fontFamily, options, priority, rawCss, resolvedFontFaceData, storage,
                 storageLog, calls, variableAxis, phase, splitVars, axisVars>>

\* getFontDetails returns; ctx.storage keeps the fonts; return { fonts }
StoreAndReturn ==
  /\ pc = "store"
  /\ storage' = setItem(storageKey(fontFamily, options), resolvedFontFaceData)
  /\ returned' = fontsResult(resolvedFontFaceData)
  /\ pc' = "idle"
  /\ UNCHANGED <<fontFamily, options, priority, rawCss, resolvedFontFaceData, requests,
                 storageLog, calls, variableAxis, phase, splitVars, axisVars>>

Next ==
  \/ ResolveUnknown
  \/ ResolveStored
  \/ GetFontDetails
  \/ FetchCss
  \/ FetchFails
  \/ StoreAndReturn

Init ==
  /\ variableAxis \in ProviderAxisMaps
  /\ phase = "calls"
  /\ NoSplit
  /\ NoAxes
  /\ NoCall

Spec == Init /\ [][Next]_vars

\* ------------------------------------------------------------ claims

\* the comments of the text that end on a line before the rule at p starts
QualifyingComments(css, p) ==
  { c \in CommentPositions(css) : EndLine(css, c) < StartLine(css, p) }

\* the font-face rules that have such a comment, in document order
RECURSIVE AttributedUpTo(_, _)
AttributedUpTo(css, n) ==
  IF n = 0 THEN <<>>
  ELSE IF css[n].t = "face" /\ QualifyingComments(css, n) # {}
       THEN Append(AttributedUpTo(css, n - 1), n)
       ELSE AttributedUpTo(css, n - 1)

AttributedRules(css) == AttributedUpTo(css, Len(css))

\* the rule at p has no comment before it in the text
NoCommentBefore(css, p) == \A c \in CommentPositions(css) : c > p

InFragments(frags, rule) == \E k \in 1..Len(frags) : rule \in Range(frags[k].css)

\* C5 as stated: a font-face rule that precedes the first comment, or has no
\* preceding comment at all, is no fragment of the output and its text is in
\* the css of no fragment.
C5_OrphanNeverInOutput ==
  phase = "split" =>
    \A p \in FacePositions(input) :
      NoCommentBefore(input, p) => ~ InFragments(data, input[p])

\* C5 amended: when the text holds at least one comment, a font-face rule that
\* precedes the first comment is no fragment of the output and its text is in
\* the css of no fragment.
C5_OrphanDroppedAmongComments ==
  (phase = "split" /\ CommentPositions(input) # {}) =>
    \A p \in FacePositions(input) :
      NoCommentBefore(input, p) => ~ InFragments(data, input[p])

C5_Witness ==
  /\ phase = "split"
  /\ CommentPositions(input) # {}
  /\ \E p \in FacePositions(input) : NoCommentBefore(input, p)
  /\ Len(data) = 1

\* C6: splitCssIntoSubsets(input) is the reference partition: with no comment,
\* the one fragment {subset: null, css: input}; otherwise, in document order,
\* one fragment for each font-face rule that has a comment ending on a line
\* before the line the rule starts on, labelled with the trimmed text of the
\* one of these comments that ends last.
C6_ReferencePartition ==
  phase = "split" =>
    IF CommentPositions(input) = {}
    THEN data = <<[subset |-> Null, css |-> input]>>
    ELSE LET rules == AttributedRules(input)
         IN  /\ Len(data) = Len(rules)
             /\ \A k \in 1..Len(rules) :
                  /\ data[k].css = <<input[rules[k]]>>
                  /\ \E c \in QualifyingComments(input, rules[k]) :
                       /\ \A d \in QualifyingComments(input, rules[k]) :
                            EndLine(input, d) <= EndLine(input, c)
                       /\ data[k].subset = Some(trim(input[c].raw))

C6_Witness ==
  /\ phase = "split"
  /\ Len(data) = 1
  /\ Cardinality(FacePositions(input)) = 1
  /\ \E p \in FacePositions(input) :
       \E c, d \in QualifyingComments(input, p) :
         /\ EndLine(input, c) < EndLine(input, d)
         /\ trim(input[c].raw) # trim(input[d].raw)
         /\ data[1].subset = Some(trim(input[d].raw))

\* the texts with one more comment somewhere after the last font-face rule
InsertAt(css, q, item) == SubSeq(css, 1, q) \o <<item>> \o SubSeq(css, q + 1, Len(css))

LastFace(css) == CHOOSE p \in FacePositions(css) : \A q \in FacePositions(css) : q <= p

WithTrailingComment(css) ==
  { InsertAt(css, q, Comment(r)) : q \in LastFace(css)..Len(css), r \in RawTexts }

\* C10 as stated: for every text, a comment added after the last font-face
\* rule leaves the output of splitCssIntoSubsets as it is.
C10_TrailingCommentIgnored ==
  (phase = "split" /\ FacePositions(input) # {}) =>
    \A longer \in WithTrailingComment(input) : splitCssIntoSubsets(longer) = data

\* C10 amended: for every text that holds a comment already, a comment added
\* after the last font-face rule leaves the output of splitCssIntoSubsets as
\* it is.
C10_TrailingCommentIgnoredAmongComments ==
  (phase = "split" /\ FacePositions(input) # {} /\ CommentPositions(input) # {}) =>
    \A longer \in WithTrailingComment(input) : splitCssIntoSubsets(longer) = data

C10_Witness ==
  /\ phase = "split"
  /\ FacePositions(input) # {}
  /\ CommentPositions(input) # {}
  /\ Len(data) = 1
  /\ input[Len(input)].t = "nl"
  /\ \E longer \in WithTrailingComment(input) :
       longer[Len(longer)].t = "comment" /\ longer[Len(longer)].raw # <<>>

\* the tokens of a variant tuple: tuple.split(',')
RECURSIVE Tokens(_)
Tokens(tuple) ==
  IF "," \notin Range(tuple) THEN <<tuple>>
  ELSE LET i == CHOOSE i \in 1..Len(tuple) :
                  tuple[i] = "," /\ \A j \in 1..(i - 1) : tuple[j] # ","
       IN  <<SubSeq(tuple, 1, i - 1)>> \o Tokens(SubSeq(tuple, i + 1, Len(tuple)))

\* the values resolved for the axis at position i of resolvedAxes
ValuesOfAxis(i) == axisValueOf(resolvedAxes[i], weights, styles, variableAxis)

\* C1 as stated: after the fold, whatever the lengths of the override lists,
\* every variant tuple has as many tokens as resolvedAxes has names, and its
\* token at position i is a value of the axis at position i.
C1_TuplesMatchAxes ==
  phase = "resolved" =>
    \A k \in 1..Len(resolvedVariants) :
      LET tokens == Tokens(resolvedVariants[k])
      IN  /\ Len(tokens) = Len(resolvedAxes)
          /\ \A i \in 1..Len(tokens) : tokens[i] \in Range(ValuesOfAxis(i))

RECURSIVE ProductOfSizes(_)
ProductOfSizes(n) ==
  IF n = 0 THEN 1 ELSE ProductOfSizes(n - 1) * Len(ValuesOfAxis(n))

\* every choice of one value for each of the first n axes, joined
RECURSIVE Combinations(_)
Combinations(n) ==
  IF n = 1 THEN Range(ValuesOfAxis(1))
  ELSE { join(t, o) : t \in Combinations(n - 1), o \in Range(ValuesOfAxis(n)) }

AllAxesHaveValues == \A i \in 1..Len(resolvedAxes) : Len(ValuesOfAxis(i)) > 0

Ascending(list) ==
  \A k \in 1..(Len(list) - 1) : list[k] = list[k + 1] \/ StrLess(list[k], list[k + 1])

str0 == <<"0">>
str1 == <<"1">>

\* C2: when every axis has a value, the fold yields as many tuples as the
\* product of the sizes of the axis value lists, one for each combination, in
\* ascending order; styles normal and italic with the weights 400 and 700
\* give the axes ital,wght and the tuples 0,400 0,700 1,400 1,700.
C2_ProductSorted ==
  (phase = "resolved" /\ AllAxesHaveValues) =>
    /\ Len(resolvedVariants) = ProductOfSizes(Len(resolvedAxes))
    /\ Range(resolvedVariants) = Combinations(Len(resolvedAxes))
    /\ Ascending(resolvedVariants)
    /\ (/\ variableAxis = <<>>
        /\ styles = <<str0, str1>>
        /\ Range(weights) = {Fixed(w400), Fixed(w700)})
         => /\ resolvedAxes = <<ital, wght>>
            /\ resolvedVariants = <<join(str0, w400), join(str0, w700),
                                    join(str1, w400), join(str1, w700)>>

C2_Witness ==
  /\ phase = "resolved"
  /\ AllAxesHaveValues
  /\ Len(resolvedAxes) = 4
  /\ Len(resolvedVariants) = 16
  /\ weights = <<Fixed(w700), Fixed(w400)>>

\* the first letter of an axis name
LowercaseLed(name) == name # <<>> /\ name[1] \in Range(LowerSeq)
UppercaseLed(name) == name # <<>> /\ name[1] \in Range(UpperSeq)

Lowered(name) == [i \in 1..Len(name) |-> toLowerCaseChar(name[i])]

\* a comes no later than b in a dictionary: by the letters whatever their
\* case, and between two names of the same letters, lowercase first
DictionaryOrder(a, b) ==
  IF Lowered(a) # Lowered(b) THEN StrLess(Lowered(a), Lowered(b))
  ELSE \/ a = b
       \/ LET i == CHOOSE i \in 1..Len(a) :
                     a[i] # b[i] /\ \A j \in 1..(i - 1) : a[j] = b[j]
          IN  a[i] \in Range(LowerSeq)

Count(list, x) == Cardinality({ i \in 1..Len(list) : list[i] = x })

Before(list, x, y) ==
  \A i, j \in 1..Len(list) : (list[i] = x /\ list[j] = y) => i < j

FlavorIndex(format) == (CHOOSE k \in 1..Len(userAgents) : userAgents[k] = format) - 1

PrioritiesFollowFlavors(records) ==
  /\ \A i \in 1..Len(records) :
       records[i].meta = Some([priority |-> FlavorIndex(records[i].format)])
  /\ \A i \in 1..(Len(records) - 1) :
       records[i].meta[1].priority <= records[i + 1].meta[1].priority

\* C3: every record taken from the CSS of the k-th flavor (woff2 0, ttf 1)
\* carries priority k, whatever the filter removed and whatever the earlier
\* flavors gave; the priorities of the records never decrease along the list.
C3_PriorityIsFlavorOrder ==
  /\ PrioritiesFollowFlavors(resolvedFontFaceData)
  /\ PrioritiesFollowFlavors(returned.fonts)
  /\ \A e \in Range(storage) : PrioritiesFollowFlavors(e.value)

C3_Witness ==
  /\ pc = "idle"
  /\ returned.kind = "fonts"
  /\ Len(returned.fonts) = 1
  /\ returned.fonts[1].meta = Some([priority |-> 1])
  /\ Len(requests) = 2
  /\ options.subsets = <<latin>>

\* the records the last turn of the flavor loop added
LastRecords ==
  SelectSeq(resolvedFontFaceData, LAMBDA f : f.meta = Some([priority |-> priority - 1]))

Kept(group) ==
  \A i \in 1..Len(group.css) :
    group.css[i].t = "face" =>
      \E k \in 1..Len(LastRecords) : LastRecords[k].src = group.css[i].url

Dropped(group) ==
  \A i \in 1..Len(group.css) :
    group.css[i].t = "face" =>
      \A k \in 1..Len(LastRecords) : LastRecords[k].src # group.css[i].url

\* C4 as stated: a fragment of the fetched CSS is kept exactly when its label
\* is null or is one of options.subsets; a fragment labelled with a string,
\* whatever the text, that is not in options.subsets gives no record.
C4_KeptIffNullOrRequested ==
  priority > 0 =>
    LET groups == splitCssIntoSubsets(rawCss)
    IN  \A k \in 1..Len(groups) :
          IF groups[k].subset = Null \/ groups[k].subset[1] \in Range(options.subsets)
          THEN Kept(groups[k])
          ELSE Dropped(groups[k])

\* the call is for a known family and selects no weight or no style
SelectsNothing ==
  /\ calls > 0
  /\ fontFamily \in {"Roboto Flex", "Poppins"}
  /\ \/ options.styles = <<>>
     \/ \A i \in 1..Len(options.weights) :
          IF fontFamily = "Roboto Flex"
          THEN options.weights[i] \notin {w400, w700, w100to900}
          ELSE options.weights[i] # w400

\* C7: for a family of the index, when the prepared weights or the styles are
\* empty, no CSS is fetched and resolveFont returns { fonts: [] }.
C7_EmptySelectionNoFetch ==
  SelectsNothing =>
    /\ requests = <<>>
    /\ pc # "fetch"
    /\ pc = "idle" => returned = emptyFonts

C7_Witness ==
  /\ SelectsNothing
  /\ pc = "idle"
  /\ returned = emptyFonts
  /\ options.styles = <<>>
  /\ calls = 2
  /\ Len(storage) = 2

\* C8: for a family that is not in the index resolveFont returns undefined,
\* raises nothing, fetches nothing and does not ask the storage; for a family
\* of the index it never returns undefined.
C8_UnknownFamilyAbsent ==
  calls > 0 =>
    /\ fontFamily = "Unknown Sans" =>
         /\ pc = "idle"
         /\ returned = undefined
         /\ requests = <<>>
         /\ storageLog = <<>>
    /\ fontFamily # "Unknown Sans" => returned # undefined

C8_Witness ==
  /\ calls = 2
  /\ fontFamily = "Unknown Sans"
  /\ returned = undefined
  /\ Len(storage) = 1

====
